---- MODULE Spec2Model ----
(***************************************************************************)
(* Model of claii's REPL (src/claii/cli.py): the sqlite store with its two *)
(* tables, the session and history helpers, the streaming chat turn and    *)
(* the ':' commands of ClaiRepl.                                           *)
(*                                                                         *)
(* Text is a sequence of characters, so that slicing (prompt[:50]) and     *)
(* joining (''.join(response)) are computed.                               *)
(* An optional integer (self.sid, chat's sid) is the empty set (None) or   *)
(* a singleton {n}.                                                        *)
(***************************************************************************)
EXTENDS Integers, Sequences, FiniteSets, TLC

\* ---------------------------------------------------------------- bounds
MaxSessions == 2      \* rows of chat_sessions
MaxMessages == 3      \* rows of chat_messages
MaxClock    == 1      \* seconds the wall clock advances
MaxChunks   == 2      \* chunks one stream delivers
Extra       == 1      \* characters of the long prompt beyond the title cut

\* ------------------------------------------------------- program constants
TitleLen == 50

None == {}
Some(n) == {n}
ValueOf(opt) == CHOOSE n \in opt : TRUE

system_content == <<"You are a helpful assistant.">>

\* ------------------------------------------------------------------ inputs
LongPrompt == [i \in 1..(TitleLen + Extra) |-> IF i <= TitleLen THEN "x" ELSE "y"]
Prompts == {<<"h", "i">>, LongPrompt}
SmArgs == {<<>>, <<"s">>}
HelloArgs == {<<"w">>}
Digits == {"0", "1", "2", "3", "4", "5", "6", "7", "8", "9"}
CsArgs == {<<"x">>, <<"0">>, <<"-", "1">>, <<"1">>, <<"2">>, <<"1", "0">>}
NoDelta == <<"<no content>">>
Chunks == {NoDelta, <<>>, <<"H">>, <<"e", "y">>}

\* ------------------------------------------------------------- text helpers
Min(a, b) == IF a <= b THEN a ELSE b

\* prompt[:n]
Slice(s, n) == SubSeq(s, 1, Min(n, Len(s)))

RECURSIVE join_reversed(_)
\* variant: the pieces are joined last to first
join_reversed(response) ==
    IF response = <<>> THEN <<>>
    ELSE join_reversed(Tail(response)) \o Head(response)

RECURSIVE join(_)
\* ''.join(response)
join(response) ==
    IF response = <<>> THEN <<>>
    ELSE Head(response) \o join(Tail(response))

DigitVal(d) == CHOOSE v \in 0..9 : Digits \cap {d} = {ToString(v)}

RECURSIVE DigitsVal(_)
DigitsVal(s) ==
    IF s = <<>> THEN 0
    ELSE 10 * DigitsVal(SubSeq(s, 1, Len(s) - 1)) + DigitVal(s[Len(s)])

AllDigits(s) == Len(s) > 0 /\ \A i \in 1..Len(s) : s[i] \in Digits

\* int(arg): None stands for ValueError
int(arg) ==
    IF AllDigits(arg) THEN Some(DigitsVal(arg))
    ELSE IF Len(arg) > 1 /\ arg[1] = "-" /\ AllDigits(Tail(arg))
         THEN Some(0 - DigitsVal(Tail(arg)))
         ELSE None

\* ------------------------------------------------------------------- state
VARIABLES
    chat_sessions,   \* table chat_sessions, rows in insertion order
    chat_messages,   \* table chat_messages, rows in insertion order
    clock,           \* CURRENT_TIMESTAMP, in whole seconds
    self_sid,        \* ClaiRepl.sid
    pc,              \* "prompt" | "calling" | "streaming" | "terminated"
    exc,             \* exception that left cmdloop, "" if none
    line,            \* the input line handed to default: [command, arg]
    sid,             \* chat's local sid
    messages,        \* chat's local messages (the context)
    response,        \* chat's local response
    res_stream,      \* chunks the stream has yielded so far
    out,             \* the texts printed while handling the line, one per print
    outcome,         \* how the last chat turn ended
    turn,            \* number of chat calls made so far
    turns,           \* turns[i]: the chat call that inserted chat_messages[i]
    tables           \* the tables present in claii.db

vars == <<chat_sessions, chat_messages, clock, self_sid, pc, exc, line, sid,
          messages, response, res_stream, out, outcome, turn, turns, tables>>


\* ------------------------------------------------------------------- store
Ids(sess) == {sess[i].id : i \in 1..Len(sess)}

\* INSERT INTO chat_messages (sid, role, content); id and timestamp are
\* filled in by the table's defaults
save_history(msgs, s, role, content, now) ==
    Append(msgs, [id |-> Len(msgs) + 1, sid |-> s, role |-> role,
                  content |-> content, timestamp |-> now])

\* INSERT INTO chat_sessions (title, model, provider); lastrowid is the
\* id of the appended row
new_sid(sess, title, now) ==
    Append(sess, [id |-> Len(sess) + 1, title |-> title,
                  model |-> "gpt-3.5-turbo", provider |-> "openai",
                  updated |-> now])

\* variant: the UPDATE matches no row
set_session_title_noop(sess, s, title) == sess

\* variant: the UPDATE also refreshes updated
set_session_title_touch(sess, s, title) ==
    [i \in 1..Len(sess) |->
        IF sess[i].id = s
        THEN [sess[i] EXCEPT !.title = title, !.updated = @ + 1]
        ELSE sess[i]]

\* UPDATE chat_sessions SET title = ? WHERE id = ?
set_session_title(sess, s, title) ==
    [i \in 1..Len(sess) |->
        IF sess[i].id = s THEN [sess[i] EXCEPT !.title = title] ELSE sess[i]]

\* variant: a missing session is read as a titled one
fetchone_title_lenient(sess, s) ==
    IF \E i \in 1..Len(sess) : sess[i].id = s
    THEN {sess[i].title : i \in {j \in 1..Len(sess) : sess[j].id = s}}
    ELSE {<<"?">>}

\* SELECT title FROM chat_sessions WHERE id = ?, then fetchone():
\* the set of titles found, empty when fetchone() gives None
fetchone_title(sess, s) ==
    {sess[i].title : i \in {j \in 1..Len(sess) : sess[j].id = s}}

\* the rows of a session, as indexes into the table
RowsOf(msgs, s) == {i \in 1..Len(msgs) : msgs[i].sid = s}

\* ORDER BY timestamp ASC: every arrangement of the selected rows with
\* non-decreasing timestamps; SQL leaves the order of equal keys open
OrderByTimestamp(msgs, rows) ==
    {f \in [1..Cardinality(rows) -> rows] :
        /\ \A a, b \in 1..Cardinality(rows) : a /= b => f[a] /= f[b]
        /\ \A a, b \in 1..Cardinality(rows) :
              a < b => msgs[f[a]].timestamp <= msgs[f[b]].timestamp}

\* get_history(sid): the lists the query can return
get_history(msgs, s) ==
    {[k \in 1..Cardinality(RowsOf(msgs, s)) |->
         [role |-> msgs[f[k]].role, content |-> msgs[f[k]].content]] :
       f \in OrderByTimestamp(msgs, RowsOf(msgs, s))}

\* ORDER BY updated ASC over chat_sessions
OrderByUpdated(sess) ==
    {f \in [1..Len(sess) -> 1..Len(sess)] :
        /\ \A a, b \in 1..Len(sess) : a /= b => f[a] /= f[b]
        /\ \A a, b \in 1..Len(sess) :
              a < b => sess[f[a]].updated <= sess[f[b]].updated}

\* -------------------------------------------------------------------- chat
\* "if sid:" is false for None and for 0
Truthy(opt) == opt /= None /\ opt /= Some(0)

\* variant: the title is taken to be empty on every turn
title_is_empty_always(title) == TRUE

\* session['title'] == ''
title_is_empty(title) == title = <<>>

\* variant: the title is the whole prompt
title_of_whole(prompt) == prompt

\* prompt[:50]
title_of(prompt) == Slice(prompt, TitleLen)

\* variant: the default system message is written along with the prompt
chat_save_user_with_system(msgs, s, prompt, now) ==
    save_history(save_history(msgs, s, "system", system_content, now),
                 s, "user", prompt, now)

\* variant: the user message is not written ahead of the remote call
chat_save_user_skipped(msgs, s, prompt, now) == msgs

\* save_history(sid, 'user', prompt) ahead of the remote call
chat_save_user(msgs, s, prompt, now) == save_history(msgs, s, "user", prompt, now)

\* "if content:" is false for a missing delta/content and for ''
has_content(chunk) == chunk /= NoDelta /\ chunk /= <<>>

\* variant: the except branch keeps what was received
chat_except_saves_partial(msgs, s, resp, now) ==
    save_history(msgs, s, "assistant", join(resp), now)

\* the except branch: print(e), nothing is written
chat_except(msgs, s, resp, now) == msgs

\* variant: default drops what chat returns
default_keeps(cur, returned) == cur

\* self.sid = chat(line, self.sid): chat returns its sid
default_adopts(cur, returned) == returned

\* self.sid = sid at the end of continue_session
continue_session_sid(cur, n, ids) == Some(n)

Init ==
    /\ chat_sessions = <<>>
    /\ chat_messages = <<>>
    /\ clock = 0
    /\ self_sid = None
    /\ pc = "prompt"
    /\ exc = ""
    /\ line = [command |-> "", arg |-> <<>>]
    /\ sid = None
    /\ messages = <<>>
    /\ response = <<>>
    /\ res_stream = <<>>
    /\ out = <<>>
    /\ outcome = "none"
    /\ turn = 0
    /\ turns = <<>>
    /\ tables = {"chat_sessions", "chat_messages"}

\* a second passes on the wall clock
Tick ==
    /\ pc /= "terminated"
    /\ clock < MaxClock
    /\ clock' = clock + 1
    /\ UNCHANGED <<chat_sessions, chat_messages, self_sid, pc, exc, line, sid,
                   messages, response, res_stream, out, outcome, turn, turns,
                   tables>>

\* default(line) with a first word that is no registered command: chat(line,
\* self.sid) up to the point where the remote call is made
DefaultChat(prompt) ==
    /\ pc = "prompt"
    /\ Len(chat_messages) < MaxMessages
    /\ line' = [command |-> "text", arg |-> prompt]
    /\ out' = <<>>
    /\ response' = <<>>
    /\ res_stream' = <<>>
    /\ turn' = turn + 1
    /\ UNCHANGED <<clock, self_sid, tables>>
    /\ IF Truthy(self_sid)
       THEN LET s == ValueOf(self_sid)
                found == fetchone_title(chat_sessions, s)
            IN IF found = {}
               THEN \* session is None: session['title'] raises TypeError,
                    \* which nothing between chat and cmdloop catches
                    /\ pc' = "terminated"
                    /\ exc' = "TypeError"
                    /\ outcome' = "raised"
                    /\ sid' = self_sid
                    /\ messages' = <<>>
                    /\ UNCHANGED <<chat_sessions, chat_messages, turns>>
               ELSE /\ chat_sessions' =
                          IF \E t \in found : title_is_empty(t)
                          THEN set_session_title(chat_sessions, s, title_of(prompt))
                          ELSE chat_sessions
                    /\ \E history \in get_history(chat_messages, s) :
                          messages' = Append(history,
                                        [role |-> "user", content |-> prompt])
                    /\ chat_messages' = chat_save_user(chat_messages, s, prompt, clock)
                    /\ turns' = turns \o [k \in 1..(Len(chat_messages')
                                        - Len(chat_messages)) |-> turn']
                    /\ sid' = self_sid
                    /\ pc' = "calling"
                    /\ outcome' = "running"
                    /\ UNCHANGED exc
       ELSE /\ Len(chat_sessions) < MaxSessions
            /\ chat_sessions' = new_sid(chat_sessions, title_of(prompt), clock)
            /\ sid' = Some(chat_sessions'[Len(chat_sessions')].id)
            /\ messages' = <<[role |-> "system", content |-> system_content],
                             [role |-> "user", content |-> prompt]>>
            /\ chat_messages' = chat_save_user(chat_messages, ValueOf(sid'), prompt, clock)
            /\ turns' = turns \o [k \in 1..(Len(chat_messages')
                                - Len(chat_messages)) |-> turn']
            /\ pc' = "calling"
            /\ outcome' = "running"
            /\ UNCHANGED exc

\* openai.ChatCompletion.create(...) returns the stream
CreateStream ==
    /\ pc = "calling"
    /\ pc' = "streaming"
    /\ UNCHANGED <<chat_sessions, chat_messages, clock, self_sid, exc, line, sid,
                   messages, response, res_stream, out, outcome, turn, turns,
                   tables>>

\* one iteration of "for chunk in res_stream"
NextChunk(chunk) ==
    /\ pc = "streaming"
    /\ Len(res_stream) < MaxChunks
    /\ res_stream' = Append(res_stream, chunk)
    /\ IF has_content(chunk)
       THEN /\ response' = Append(response, chunk)
            /\ out' = Append(out, chunk)
       ELSE UNCHANGED <<response, out>>
    /\ UNCHANGED <<chat_sessions, chat_messages, clock, self_sid, pc, exc, line,
                   sid, messages, outcome, turn, turns, tables>>

\* the stream is exhausted: print(), save the assistant message, return sid;
\* default stores the returned sid
EndOfStream ==
    /\ pc = "streaming"
    /\ Len(chat_messages) < MaxMessages
    /\ out' = Append(out, <<"\n">>)
    /\ chat_messages' = save_history(chat_messages, ValueOf(sid), "assistant",
                                     join(response), clock)
    /\ turns' = Append(turns, turn)
    /\ self_sid' = default_adopts(self_sid, sid)
    /\ pc' = "prompt"
    /\ outcome' = "done"
    /\ sid' = None
    /\ messages' = <<>>
    /\ response' = <<>>
    /\ res_stream' = <<>>
    /\ UNCHANGED <<chat_sessions, clock, exc, line, turn, tables>>

\* openai.error.OpenAIError raised by create() or by the iteration: print(e),
\* return sid; default stores the returned sid
ProviderError ==
    /\ pc \in {"calling", "streaming"}
    /\ out' = Append(out, <<"<OpenAIError>", "\n">>)
    /\ chat_messages' = chat_except(chat_messages, ValueOf(sid), response, clock)
    /\ turns' = IF Len(chat_messages') > Len(chat_messages)
                THEN Append(turns, turn) ELSE turns
    /\ self_sid' = default_adopts(self_sid, sid)
    /\ pc' = "prompt"
    /\ outcome' = "failed"
    /\ sid' = None
    /\ messages' = <<>>
    /\ response' = <<>>
    /\ res_stream' = <<>>
    /\ UNCHANGED <<chat_sessions, clock, exc, line, turn, tables>>

\* KeyboardInterrupt raised while waiting for create() or for a chunk: it is
\* no OpenAIError and no Exception, so it leaves chat, default and cmdloop
Interrupt ==
    /\ pc \in {"calling", "streaming"}
    /\ pc' = "terminated"
    /\ exc' = "KeyboardInterrupt"
    /\ outcome' = "raised"
    /\ UNCHANGED <<chat_sessions, chat_messages, clock, self_sid, line, sid,
                   messages, response, res_stream, out, turn, turns, tables>>

\* ---------------------------------------------------------------- commands
\* default(line) with a registered command: the frame every command shares
Dispatch(command, arg) ==
    /\ pc = "prompt"
    /\ line' = [command |-> command, arg |-> arg]
    /\ outcome' = "none"
    /\ UNCHANGED <<clock, pc, exc, sid, messages, response, res_stream, turn,
                   tables>>

\* :cs
continue_session(arg) ==
    /\ Dispatch(":cs", arg)
    /\ LET parsed == int(arg)
           ids == Ids(chat_sessions)
       IN IF parsed = None
          THEN /\ out' = << <<"please specify a session id", "\n">> >>
               /\ UNCHANGED self_sid
          ELSE /\ out' = IF ValueOf(parsed) \notin ids
                         THEN << <<"unknown session id: ",
                                   ToString(ValueOf(parsed)), "\n">> >>
                         ELSE <<>>
               /\ self_sid' = continue_session_sid(self_sid, ValueOf(parsed), ids)
    /\ UNCHANGED <<chat_sessions, chat_messages, turns>>

\* :sm
system_message(arg) ==
    /\ Dispatch(":sm", arg)
    /\ Len(chat_sessions) < MaxSessions
    /\ Len(chat_messages) < MaxMessages
    /\ chat_sessions' = new_sid(chat_sessions, <<>>, clock)
    /\ self_sid' = Some(chat_sessions'[Len(chat_sessions')].id)
    /\ chat_messages' = save_history(chat_messages, ValueOf(self_sid'),
                                     "system", arg, clock)
    /\ turns' = Append(turns, 0)
    /\ out' = <<>>

\* :ss
list_sessions ==
    /\ Dispatch(":ss", <<>>)
    /\ \E f \in OrderByUpdated(chat_sessions) :
          out' = [k \in 1..Len(chat_sessions) |->
                    <<ToString(chat_sessions[f[k]].id), ": ">>
                       \o chat_sessions[f[k]].title
                       \o <<" (", ToString(chat_sessions[f[k]].updated), ")", "\n">>]
    /\ UNCHANGED <<chat_sessions, chat_messages, self_sid, turns>>

\* :sh
session_history ==
    /\ Dispatch(":sh", <<>>)
    /\ IF self_sid = None
       THEN out' = << <<"no session selected", "\n">> >>
       ELSE LET rows == RowsOf(chat_messages, ValueOf(self_sid))
            IN \E f \in OrderByTimestamp(chat_messages, rows) :
                  out' = [k \in 1..Cardinality(rows) |->
                            <<ToString(chat_messages[f[k]].timestamp), " ",
                              chat_messages[f[k]].role, ": ">>
                               \o chat_messages[f[k]].content \o <<"\n">>]
    /\ UNCHANGED <<chat_sessions, chat_messages, self_sid, turns>>

\* :hello
hello(arg) ==
    /\ Dispatch(":hello", arg)
    /\ out' = << <<"Hello, ">> \o arg \o <<"\n">> >>
    /\ UNCHANGED <<chat_sessions, chat_messages, self_sid, turns>>

\* :quit returns True to default, which returns None to cmdloop
quit ==
    /\ Dispatch(":quit", <<>>)
    /\ out' = <<>>
    /\ UNCHANGED <<chat_sessions, chat_messages, self_sid, turns>>

Next ==
    \/ Tick
    \/ \E prompt \in Prompts : DefaultChat(prompt)
    \/ CreateStream
    \/ \E chunk \in Chunks : NextChunk(chunk)
    \/ EndOfStream
    \/ ProviderError
    \/ Interrupt
    \/ \E arg \in CsArgs : continue_session(arg)
    \/ \E arg \in SmArgs : system_message(arg)
    \/ list_sessions
    \/ session_history
    \/ \E arg \in HelloArgs : hello(arg)
    \/ quit

Spec == Init /\ [][Next]_vars

\* ------------------------------------------------------------ store calls
\* The store taken by itself: claii.db as an earlier run left it, the schema
\* set-up of a starting REPL, and direct calls of the store helpers.
BothTables == {"chat_sessions", "chat_messages"}

\* what an earlier run can leave in chat_sessions
StoredSessions == {<<>>, new_sid(<<>>, <<"h", "i">>, 0)}

\* what an earlier run can leave in chat_messages, given the sessions
StoredMessages(sess) ==
    {<<>>} \cup {save_history(<<>>, sess[i].id, "user", <<"h", "i">>, 0) :
                   i \in 1..Len(sess)}

\* the ids save_history is called with
StoreSids == {1, 7}
StoreRoles == {"user", "assistant"}
StoreTexts == {<<"h", "i">>}

\* claii.db before the REPL is constructed: no table yet, chat_sessions
\* only (the run ended between the two CREATE TABLE statements), or both
InitStore ==
    /\ tables \in {{}, {"chat_sessions"}, BothTables}
    /\ chat_sessions \in (IF "chat_sessions" \in tables
                          THEN StoredSessions ELSE {<<>>})
    /\ chat_messages \in (IF "chat_messages" \in tables
                          THEN StoredMessages(chat_sessions) ELSE {<<>>})
    /\ turns = [i \in 1..Len(chat_messages) |-> 0]
    /\ clock = 0
    /\ self_sid = None
    /\ pc = "start"
    /\ exc = ""
    /\ line = [command |-> "", arg |-> <<>>]
    /\ sid = None
    /\ messages = <<>>
    /\ response = <<>>
    /\ res_stream = <<>>
    /\ out = <<>>
    /\ outcome = "none"
    /\ turn = 0

\* ClaiRepl(): self.sid = None, then setup_local_dbs, which looks for
\* chat_messages only and otherwise creates chat_sessions, then chat_messages
setup_local_dbs ==
    /\ pc \in {"start", "prompt"}
    /\ line' = [command |-> "setup_local_dbs", arg |-> <<>>]
    /\ self_sid' = None
    /\ out' = <<>>
    /\ outcome' = "none"
    /\ IF "chat_messages" \in tables
       THEN /\ pc' = "prompt"
            /\ UNCHANGED <<tables, exc>>
       ELSE IF "chat_sessions" \in tables
            THEN \* CREATE TABLE chat_sessions: the table already exists
                 /\ pc' = "terminated"
                 /\ exc' = "OperationalError"
                 /\ UNCHANGED tables
            ELSE /\ tables' = tables \cup BothTables
                 /\ pc' = "prompt"
                 /\ UNCHANGED exc
    /\ UNCHANGED <<chat_sessions, chat_messages, clock, sid, messages, response,
                   res_stream, turn, turns>>

\* a call save_history(sid, role, content)
SaveHistoryCall(s, role, content) ==
    /\ pc = "prompt"
    /\ Len(chat_messages) < MaxMessages
    /\ line' = [command |-> "save_history", arg |-> content]
    /\ sid' = Some(s)
    /\ chat_messages' = save_history(chat_messages, s, role, content, clock)
    /\ turns' = Append(turns, 0)
    /\ UNCHANGED <<chat_sessions, clock, self_sid, pc, exc, messages, response,
                   res_stream, out, outcome, turn, tables>>

\* a call new_sid(title)
NewSidCall(title) ==
    /\ pc = "prompt"
    /\ Len(chat_sessions) < MaxSessions
    /\ line' = [command |-> "new_sid", arg |-> title]
    /\ chat_sessions' = new_sid(chat_sessions, title, clock)
    /\ sid' = Some(chat_sessions'[Len(chat_sessions')].id)
    /\ UNCHANGED <<chat_messages, clock, self_sid, pc, exc, messages, response,
                   res_stream, out, outcome, turn, turns, tables>>

NextStore ==
    \/ Tick
    \/ setup_local_dbs
    \/ \E s \in StoreSids, role \in StoreRoles, content \in StoreTexts :
          SaveHistoryCall(s, role, content)
    \/ \E title \in StoreTexts : NewSidCall(title)

SpecStore == InitStore /\ [][NextStore]_vars

\* ------------------------------------------------------------- properties
\* the step handles an input line whose first word is c
Handles(c) == pc = "prompt" /\ clock' = clock /\ line'.command = c

\* the row that was inserted last
LastRow(msgs) == msgs[Len(msgs)]

\* the rows of session s in insertion order, as role/content pairs
RECURSIVE InAppendOrder(_, _)
InAppendOrder(msgs, s) ==
    IF msgs = <<>> THEN <<>>
    ELSE IF Head(msgs).sid = s
         THEN <<[role |-> Head(msgs).role, content |-> Head(msgs).content]>>
                 \o InAppendOrder(Tail(msgs), s)
         ELSE InAppendOrder(Tail(msgs), s)

\* the texts of a list, one after the other, skipping pieces without text
RECURSIVE Concat(_)
Concat(pieces) ==
    IF pieces = <<>> THEN <<>>
    ELSE (IF Head(pieces) = NoDelta THEN <<>> ELSE Head(pieces))
            \o Concat(Tail(pieces))

\* C1: ":cs" with an integer that is no stored session's id leaves self.sid
\* as it was and reports the id as unknown.
C1_UnknownIdKeepsSelection ==
    [][(/\ Handles(":cs")
        /\ int(line'.arg) /= None
        /\ ValueOf(int(line'.arg)) \notin Ids(chat_sessions))
       => (/\ self_sid' = self_sid
           /\ out' = << <<"unknown session id: ",
                          ToString(ValueOf(int(line'.arg))), "\n">> >>)]_vars

\* C2: after a chat turn that ended in a provider error the store holds the
\* turn's user message (role user, content = prompt, in the turn's session)
\* and no assistant message of that turn.
C2_UserSavedOnProviderError ==
    (pc = "prompt" /\ outcome = "failed") =>
        /\ \E i \in 1..Len(chat_messages) :
              /\ turns[i] = turn
              /\ chat_messages[i].role = "user"
              /\ chat_messages[i].content = line.arg
              /\ Some(chat_messages[i].sid) = self_sid
        /\ \A i \in 1..Len(chat_messages) :
              turns[i] = turn => chat_messages[i].role /= "assistant"

\* a turn failed after text had been received and printed
C2_Witness ==
    /\ pc = "prompt"
    /\ outcome = "failed"
    /\ Len(out) > 1
    /\ LastRow(chat_messages).role = "user"

\* C3: no error of a single turn ends the REPL loop: every line handled by
\* default, a chat turn on a session id that is not stored included, leaves
\* the loop at the prompt.
C3_NoTurnErrorEndsLoop ==
    pc = "terminated" => exc = "KeyboardInterrupt"

\* C4: get_history returns a session's messages in the order they were
\* appended, equal timestamps included.
C4_HistoryInAppendOrder ==
    (pc = "calling" /\ Truthy(self_sid)) =>
        messages = InAppendOrder(chat_messages, ValueOf(sid))

\* C5: a session title that is not empty is never changed by a later step.
C5_TitleWrittenOnce ==
    [][\A i \in 1..Len(chat_sessions) :
          chat_sessions[i].title /= <<>> =>
              /\ i <= Len(chat_sessions')
              /\ chat_sessions'[i].title = chat_sessions[i].title]_vars

\* a session has taken two chat turns with different prompts
C5_Witness ==
    \E i, j \in 1..Len(chat_messages) :
        /\ i < j
        /\ chat_messages[i].sid = chat_messages[j].sid
        /\ chat_messages[i].role = "user"
        /\ chat_messages[j].role = "user"
        /\ chat_messages[i].content /= chat_messages[j].content
        /\ \E k \in 1..Len(chat_sessions) :
              /\ chat_sessions[k].id = chat_messages[i].sid
              /\ chat_sessions[k].title /= <<>>
              /\ chat_sessions[k].title /= chat_messages[j].content

\* C6: a keyboard interrupt during the remote call ends the turn as failed,
\* writes no further row and returns to the prompt.
C6_InterruptReturnsToPrompt ==
    [][(pc \in {"calling", "streaming"} /\ exc' = "KeyboardInterrupt")
       => (/\ pc' = "prompt"
           /\ outcome' = "failed"
           /\ chat_messages' = chat_messages)]_vars

\* C7: while the remote call of a turn is being made or its stream is read,
\* the turn's user message is the last row of the store and the turn has no
\* assistant row yet; and the rows of every session lie in conversation
\* order: an earlier turn's rows before a later turn's, a turn's user row
\* before its assistant row.
C7_PersistenceOrder ==
    /\ pc \in {"calling", "streaming"} =>
          /\ Len(chat_messages) > 0
          /\ LastRow(chat_messages).role = "user"
          /\ LastRow(chat_messages).content = line.arg
          /\ Some(LastRow(chat_messages).sid) = sid
          /\ turns[Len(chat_messages)] = turn
          /\ \A i \in 1..Len(chat_messages) :
                turns[i] = turn => chat_messages[i].role /= "assistant"
    /\ \A i, j \in 1..Len(chat_messages) :
          (i < j /\ chat_messages[i].sid = chat_messages[j].sid) =>
              /\ turns[i] <= turns[j]
              /\ turns[i] = turns[j] =>
                    /\ chat_messages[i].role = "user"
                    /\ chat_messages[j].role = "assistant"

\* the stream of a session's second turn is being read
C7_Witness ==
    /\ pc = "streaming"
    /\ Len(res_stream) > 0
    /\ \E i, j \in 1..Len(chat_messages) :
          /\ i < j
          /\ j < Len(chat_messages)
          /\ chat_messages[i].role = "user"
          /\ chat_messages[j].role = "assistant"
          /\ Some(chat_messages[i].sid) = sid
          /\ Some(chat_messages[j].sid) = sid

\* C8: when a stream ends normally, the one assistant message written for
\* the turn is the texts of the chunks that carry text, in arrival order,
\* and that is also what the turn had printed before the closing newline.
C8_StreamConcatenation ==
    [][(pc = "streaming" /\ outcome' = "done") =>
          /\ Len(chat_messages') = Len(chat_messages) + 1
          /\ SubSeq(chat_messages', 1, Len(chat_messages)) = chat_messages
          /\ LastRow(chat_messages').role = "assistant"
          /\ Some(LastRow(chat_messages').sid) = sid
          /\ LastRow(chat_messages').content = Concat(res_stream)
          /\ Concat(out) = Concat(res_stream)
          /\ out' = Append(out, <<"\n">>)]_vars

\* a turn ended normally after two chunks with different texts
C8_Witness ==
    /\ pc = "prompt"
    /\ outcome = "done"
    /\ LastRow(chat_messages).role = "assistant"
    /\ LastRow(chat_messages).content = <<"H", "e", "y">>
    /\ out = << <<"H">>, <<"e", "y">>, <<"\n">> >>

\* C9: a chat turn with no current session creates exactly one session, its
\* title the first 50 characters of the prompt, and the first message
\* stored for it has role user and the whole prompt as content.
C9_NewSessionRoundTrip ==
    [][(Handles("text") /\ self_sid = None) =>
          LET prompt == line'.arg
              n == Len(chat_sessions) + 1
              cut == IF Len(prompt) < TitleLen THEN Len(prompt) ELSE TitleLen
          IN /\ Len(chat_sessions') = n
             /\ SubSeq(chat_sessions', 1, n - 1) = chat_sessions
             /\ chat_sessions'[n].id \notin Ids(chat_sessions)
             /\ sid' = Some(chat_sessions'[n].id)
             /\ chat_sessions'[n].title = [i \in 1..cut |-> prompt[i]]
             /\ RowsOf(chat_messages, chat_sessions'[n].id) = {}
             /\ InAppendOrder(chat_messages', chat_sessions'[n].id)
                   = <<[role |-> "user", content |-> prompt]>>]_vars

\* a session was created from a prompt longer than the title
C9_Witness ==
    /\ pc = "calling"
    /\ self_sid = None
    /\ Len(line.arg) > TitleLen
    /\ \E k \in 1..Len(chat_sessions) :
          /\ Some(chat_sessions[k].id) = sid
          /\ Len(chat_sessions[k].title) = TitleLen
          /\ chat_sessions[k].title /= line.arg

\* C10: every stored message's sid is the id of a stored session.
C10_MessagesReferenceSessions ==
    \A i \in 1..Len(chat_messages) : chat_messages[i].sid \in Ids(chat_sessions)

\* messages are stored while self.sid names no stored session
C10_Witness ==
    /\ Len(chat_messages) > 0
    /\ self_sid /= None
    /\ ValueOf(self_sid) \notin Ids(chat_sessions)

\* C11: save_history with a sid that is no stored session's id fails with a
\* not-found error and leaves chat_messages as it was.
C11_SaveUnknownSidFails ==
    [][(/\ pc = "prompt"
        /\ clock' = clock
        /\ line'.command = "save_history"
        /\ sid' /= None
        /\ ValueOf(sid') \notin Ids(chat_sessions))
       => (/\ chat_messages' = chat_messages
           /\ exc' = "NotFound")]_vars

\* C15: setup_local_dbs, run on a store with no table, with one of the two
\* tables or with both, ends with both tables present and every stored row
\* unchanged, and does not fail; run again it changes nothing.
C15_SchemaSetupIdempotent ==
    [][(/\ pc \in {"start", "prompt"}
        /\ clock' = clock
        /\ line'.command = "setup_local_dbs")
       => (/\ tables' = BothTables
           /\ tables = BothTables => tables' = tables
           /\ chat_sessions' = chat_sessions
           /\ chat_messages' = chat_messages
           /\ pc' = "prompt"
           /\ exc' = "")]_vars

\* C12: every stored message with role user or assistant has content that
\* is not empty.
C12_ContentNonEmpty ==
    \A i \in 1..Len(chat_messages) :
        chat_messages[i].role \in {"user", "assistant"} =>
            chat_messages[i].content /= <<>>

\* C13: ":ss" lists every stored session once, by updated ascending, and
\* sessions with equal updated in the order they were inserted.
C13_ListingOrderedStable ==
    [][Handles(":ss") =>
          /\ Len(out') = Len(chat_sessions)
          /\ \A a, b \in 1..Len(out') :
                a < b =>
                   \E i, j \in 1..Len(chat_sessions) :
                      /\ i /= j
                      /\ out'[a][1] = ToString(chat_sessions[i].id)
                      /\ out'[b][1] = ToString(chat_sessions[j].id)
                      /\ chat_sessions[i].updated <= chat_sessions[j].updated
                      /\ chat_sessions[i].updated = chat_sessions[j].updated
                            => i < j]_vars

\* C14: ":sm" creates one session with an empty title, stores exactly one
\* message in it (role system, content = the argument) and makes it the
\* current session; the chat turn that follows sets its title to the first
\* 50 characters of the prompt and sends the system message, then the prompt.
C14_SystemMessageSeedsSession ==
    [][/\ Handles(":sm") =>
             LET n == Len(chat_sessions) + 1
                 k == Len(chat_messages) + 1
             IN /\ Len(chat_sessions') = n
                /\ SubSeq(chat_sessions', 1, n - 1) = chat_sessions
                /\ chat_sessions'[n].id \notin Ids(chat_sessions)
                /\ chat_sessions'[n].title = <<>>
                /\ self_sid' = Some(chat_sessions'[n].id)
                /\ Len(chat_messages') = k
                /\ SubSeq(chat_messages', 1, k - 1) = chat_messages
                /\ chat_messages'[k].role = "system"
                /\ chat_messages'[k].content = line'.arg
                /\ RowsOf(chat_messages', chat_sessions'[n].id) = {k}
       /\ (Handles("text") /\ line.command = ":sm") =>
             LET prompt == line'.arg
                 cut == IF Len(prompt) < TitleLen THEN Len(prompt) ELSE TitleLen
             IN /\ pc' = "calling"
                /\ sid' = self_sid
                /\ Len(chat_sessions') = Len(chat_sessions)
                /\ \E i \in 1..Len(chat_sessions') :
                      /\ Some(chat_sessions'[i].id) = self_sid
                      /\ chat_sessions'[i].title = [c \in 1..cut |-> prompt[c]]
                /\ messages' = <<[role |-> "system", content |-> line.arg],
                                 [role |-> "user", content |-> prompt]>>]_vars

\* the turn after ":sm s" is at its remote call, with a long prompt
C14_Witness ==
    /\ pc = "calling"
    /\ Len(line.arg) > TitleLen
    /\ messages = <<[role |-> "system", content |-> <<"s">>],
                    [role |-> "user", content |-> line.arg]>>
    /\ \E i \in 1..Len(chat_sessions) :
          /\ Some(chat_sessions[i].id) = sid
          /\ Len(chat_sessions[i].title) = TitleLen

\* C16: no step updates or deletes a message row or deletes a session row,
\* and a session's id, model, provider and updated never change.
C16_RowsKeptExceptTitle ==
    [][/\ Len(chat_messages') >= Len(chat_messages)
       /\ SubSeq(chat_messages', 1, Len(chat_messages)) = chat_messages
       /\ Len(chat_sessions') >= Len(chat_sessions)
       /\ \A i \in 1..Len(chat_sessions) :
             /\ chat_sessions'[i].id = chat_sessions[i].id
             /\ chat_sessions'[i].model = chat_sessions[i].model
             /\ chat_sessions'[i].provider = chat_sessions[i].provider
             /\ chat_sessions'[i].updated = chat_sessions[i].updated]_vars

\* a session made by ":sm" got its title from a chat turn in a later second
C16_Witness ==
    \E k \in 1..Len(chat_sessions) :
        /\ chat_sessions[k].title /= <<>>
        /\ \E i, j \in RowsOf(chat_messages, chat_sessions[k].id) :
              /\ chat_messages[i].role = "system"
              /\ chat_messages[j].role = "user"
              /\ chat_messages[j].timestamp > chat_sessions[k].updated

\* C17: the context handed to the remote call is the default system message
\* and the prompt for a turn that creates its session, and otherwise all
\* stored messages of the session in their order, then the prompt, once.
C17_ContextOfRemoteCall ==
    pc = "calling" =>
        LET user == [role |-> "user", content |-> line.arg]
        IN IF Truthy(self_sid)
           THEN /\ Len(messages) = Cardinality(RowsOf(chat_messages, ValueOf(sid)))
                /\ messages[Len(messages)] = user
                /\ SubSeq(messages, 1, Len(messages) - 1)
                      = SubSeq(InAppendOrder(chat_messages, ValueOf(sid)),
                               1, Len(messages) - 1)
           ELSE messages = <<[role |-> "system", content |-> system_content],
                             user>>

\* C18: chat returns the sid of the session that holds the turn's user
\* message, after a normal end and after a provider error, and default
\* stores it in self.sid; the chat input after a failed turn goes on in
\* that session and creates none.
C18_ReturnedSidAdopted ==
    [][/\ (pc \in {"calling", "streaming"} /\ pc' = "prompt") =>
             /\ self_sid' = sid
             /\ \E i \in 1..Len(chat_messages') :
                   /\ turns'[i] = turn
                   /\ chat_messages'[i].role = "user"
                   /\ Some(chat_messages'[i].sid) = self_sid'
       /\ (Handles("text") /\ outcome = "failed") =>
             /\ pc' = "calling"
             /\ sid' = self_sid
             /\ chat_sessions' = chat_sessions
             /\ LastRow(chat_messages').role = "user"
             /\ LastRow(chat_messages').sid = LastRow(chat_messages).sid]_vars

\* the first turn failed and the second runs in the session it created
C18_Witness ==
    /\ pc = "calling"
    /\ turns = <<1, 2>>
    /\ Len(chat_sessions) = 1
    /\ chat_messages[1].role = "user"
    /\ chat_messages[2].role = "user"
    /\ chat_messages[1].sid = chat_messages[2].sid
    /\ sid = Some(chat_messages[1].sid)

\* C19: ":quit" stops the command loop: no further line is read after it.
C19_QuitStopsLoop ==
    [][Handles(":quit") => pc' /= "prompt"]_vars

\* C20: the only stored rows with role system are those ":sm" inserted, each
\* the first row of its session; a session that a chat turn created has no
\* system row, and the context of its later turns has no system message.
C20_DefaultSystemNeverStored ==
    /\ \A i \in 1..Len(chat_messages) :
          chat_messages[i].role = "system" =>
              /\ turns[i] = 0
              /\ \A j \in 1..(i - 1) : chat_messages[j].sid /= chat_messages[i].sid
    /\ (/\ pc = "calling"
        /\ Truthy(self_sid)
        /\ \A i \in RowsOf(chat_messages, ValueOf(sid)) : turns[i] /= 0) =>
          \A k \in 1..Len(messages) : messages[k].role /= "system"

\* the second turn of a session that a chat turn created is at its remote call
C20_Witness ==
    /\ pc = "calling"
    /\ Truthy(self_sid)
    /\ Cardinality(RowsOf(chat_messages, ValueOf(sid))) = 3
    /\ \A i \in RowsOf(chat_messages, ValueOf(sid)) : chat_messages[i].role /= "system"
    /\ Len(messages) = 3

====
